---- MODULE Spec2Model ----
(***************************************************************************)
(* The peer-to-peer video session of arm-watch-and-lead: the robot-side    *)
(* WebRTCStreamer (src/src/services/webrtc.ts), the operator-side          *)
(* WebRTCReceiver (src/src/services/webrtc-receiver.ts), the localStorage  *)
(* relay they poll, the page code that starts and stops the streamer       *)
(* (LocalRobotControl, src/unnamed/part_004), and the component that       *)
(* creates and cleans up receivers (VideoStream, src/unnamed/part_002).    *)
(*                                                                         *)
(* JavaScript runs one macrotask at a time.  An action of this module is   *)
(* one macrotask: a timer callback, a host event, or the resumption of an  *)
(* async function after a host promise settled, together with all the     *)
(* synchronous code and microtasks that follow it.  A host promise         *)
(* (getUserMedia, setRemoteDescription, addIceCandidate, replaceTrack,     *)
(* createOffer, createAnswer) settles after an arbitrary delay.            *)
(***************************************************************************)
EXTENDS Naturals, Sequences, FiniteSets

(* ------------------------------ bounds --------------------------------- *)

\* ICE candidates the streamer gathers where their order is examined
MaxCand == 3
\* ICE candidates each side gathers elsewhere
FewCand == 1
\* handler invocations in flight per session
MaxTasks == 2
\* capture streams the host hands out
MaxStreams == 3
\* quality requests the operator side issues
MaxQualityRequests == 2
\* invocation and release counters saturate here
MaxCount == 2
\* receivers one VideoStream component creates
MaxSessions == 3
\* ICE candidates the streamer gathers where buffered candidates may fail,
\* and where the receiver's duplicate test is examined
DrainCand == 2

(* ----------------------------- constants ------------------------------- *)

QualityLevel == {"low", "medium", "high"}
OperatorId == "op"
\* the senderId of an envelope the streamer writes: the field is absent
NoSender == "undefined"
\* Date.now() between two envelopes: the same millisecond, or a later one
Lapse == {0, 1}

VARIABLES
    relay,      \* localStorage["webrtc_signaling_<robotId>"]: the envelopes
    now,        \* Date.now()
    streamer,   \* the fields of the WebRTCStreamer object
    sFlow,      \* where startWebRTCStreaming stands
    sTasks,     \* streamer handler invocations awaiting a host promise
    sHost,      \* the host objects the streamer created
    streams,    \* the capture streams getUserMedia returned
    receiver,   \* the fields of the WebRTCReceiver object
    rTasks,     \* receiver handler invocations awaiting a host promise
    pcs,        \* the RTCPeerConnection objects the receiver created
    rHost,      \* the receiver's page, its data channel and what was sent on it
    obs         \* observation: what was invoked on which envelope, and when

vars == <<relay, now, streamer, sFlow, sTasks, sHost, streams,
          receiver, rTasks, pcs, rHost, obs>>

(* ------------------------------ helpers -------------------------------- *)

Inc(n) == IF n < MaxCount THEN n + 1 ELSE MaxCount

Min(S) == CHOOSE x \in S : \A y \in S : x <= y

\* a task id not in use
FreshTid(tasks) == Min((1..(Cardinality(tasks) + 1)) \ {t.tid : t \in tasks})

Envelope(type, senderId, quality, timestamp) ==
    [type |-> type, senderId |-> senderId, timestamp |-> timestamp,
     quality |-> quality, processed |-> FALSE]

\* sendSignalingMessage: read the array, push {...message, timestamp:
\* Date.now()}, write it back.  dt: how far the clock has moved on since the
\* last envelope was stamped.  The only timestamps the program ever compares
\* are those of the streamer's candidates (the receiver's messageId; there
\* is one offer, and the streamer keeps no ids), so only they take a lapse
Publish(type, senderId, quality, dt) ==
    /\ now' = now + dt
    /\ relay' = Append(relay, Envelope(type, senderId, quality, now + dt))

Count(f, i) == IF i \in DOMAIN f THEN f[i] ELSE 0

\* one more invocation on envelope i, where invocations are being counted
Bump(f, i) ==
    IF obs.watch
    THEN [j \in DOMAIN f \cup {i} |-> IF j = i THEN Inc(Count(f, i)) ELSE f[j]]
    ELSE f

(* ------------------------------- Init ---------------------------------- *)

\* webrtc.ts:34-39: the fields of a constructed WebRTCStreamer
StreamerNew ==
    [peerConnection |-> FALSE, localStream |-> 0, dataChannel |-> FALSE,
     currentQuality |-> "low", hasAudio |-> FALSE, signalingInterval |-> FALSE]

\* the streamer's RTCPeerConnection and RTCDataChannel objects, none created yet
SHostNew ==
    [signalingState |-> "none", localDescription |-> FALSE,
     remoteDescription |-> FALSE, audioSender |-> FALSE, candidates |-> 0,
     toGather |-> 0, pcCloses |-> 0, dcCloses |-> 0]

\* webrtc-receiver.ts:5-17: the fields of a constructed WebRTCReceiver
ReceiverNew ==
    [peerConnection |-> 0, dataChannel |-> FALSE, currentQuality |-> "low",
     signalingInterval |-> FALSE, pendingIceCandidates |-> <<>>,
     remoteDescriptionSet |-> FALSE, processedMessages |-> {},
     initialized |-> FALSE]

\* what is observed of a run: the handler invocations per envelope (counted
\* where watch is set), addIceCandidate calls on a connection without remote
\* description, the cleanup calls, the quality requests issued, the level the
\* last focus report asks for and whether it came while a changeQuality was
\* in progress, how the promise of a changeQuality settled whose
\* replaceTrack failed, what the last cleanup of each role stopped, closed
\* and cleared, in the order it did, the envelope of the last buffered
\* candidate whose addIceCandidate failed (0: none did), and whether the
\* receiver skipped as a duplicate an envelope it had run no handler on
\* (seen where invocations are counted), and what onAudioStatusChange was
\* last called with
ObsNew ==
    [watch |-> FALSE, sApplied |-> <<>>, rApplied |-> <<>>, sAddNoRemote |-> FALSE,
     rAddNoRemote |-> FALSE, sCleanups |-> 0, rCleanups |-> 0, requests |-> 0,
     focus |-> "none", overlap |-> FALSE, replaceFailure |-> "none",
     sReleases |-> <<>>, rReleases |-> <<>>, badCandidate |-> 0,
     falseDuplicate |-> FALSE, audioStatus |-> "none"]

\* the VideoStream component before it is mounted: its props useWebRTC and
\* id, its state webrtcReceiver (0: null, else the receiver it holds), the
\* webrtcReceiver that the effect which ran last closed over, the async
\* functions waiting to resume after an await, and the receivers it created
\* with their poll timers
ViewNew ==
    [phase |-> "new", useWebRTC |-> FALSE, id |-> 1, webrtcReceiver |-> 0,
     seen |-> 0, pending |-> {}, sessions |-> <<>>]

\* sc, rc: the candidates the ICE agents of the streamer and of the receiver
\* are going to gather; watch: whether handler invocations are counted
InitWith(sc, rc, watch) ==
    /\ relay = <<>>
    /\ now = 0
    /\ streamer = StreamerNew
    /\ sFlow = [at |-> "idle", current |-> FALSE]
    /\ sTasks = {}
    /\ sHost = [SHostNew EXCEPT !.toGather = sc]
    /\ streams = <<>>
    /\ receiver = ReceiverNew
    /\ rTasks = {}
    /\ pcs = <<>>
    /\ rHost = [started |-> FALSE, webrtcReceiver |-> FALSE, isFocused |-> FALSE,
                dcCloses |-> 0, dcSent |-> <<>>,
                candidates |-> 0, toGather |-> rc, view |-> ViewNew]
    /\ obs = [ObsNew EXCEPT !.watch = watch]

Init == InitWith(FewCand, FewCand, TRUE)

(* ---------------------- starting the streamer -------------------------- *)

\* the argument of a call of onAudioStatusChange
AudioStatus(hasAudio) == IF hasAudio THEN "audio" ELSE "no audio"

\* a capture stream is live while none of its tracks was stopped
Live(id) == id # 0 /\ streams[id].stops = 0

StopTracks(ss, id) == [ss EXCEPT ![id].stops = Inc(@)]

\* startWebRTCStreaming up to the first await: the session is constructed and
\* initialize calls getMediaStream('low'), which asks for video and audio
SStart ==
    /\ sFlow.at = "idle"
    /\ sFlow' = [at |-> "gumAV", current |-> TRUE]
    /\ UNCHANGED <<relay, now, streamer, sTasks, sHost, streams,
                   receiver, rTasks, pcs, rHost, obs>>

\* a faulty initialize, for comparison: it reports audio whatever the stream
\* holds
SAfterCaptureReportsAudio(audio, pcOk, dcOk) ==
    LET id == Len(streams) + 1 IN
    /\ streams' = Append(streams, [audio |-> audio, stops |-> 0])
    /\ sHost' = IF pcOk
                THEN [sHost EXCEPT !.signalingState = "stable", !.audioSender = audio]
                ELSE sHost
    /\ streamer' = [streamer EXCEPT
            !.localStream = id,
            !.hasAudio = TRUE,
            !.peerConnection = pcOk,
            !.dataChannel = pcOk /\ dcOk,
            !.signalingInterval = @ \/ (pcOk /\ dcOk /\ sFlow.current)]
    /\ sFlow' = [sFlow EXCEPT !.at = IF pcOk /\ dcOk /\ sFlow.current
                                     THEN "createOffer" ELSE "failed"]
    /\ obs' = [obs EXCEPT !.audioStatus = AudioStatus(TRUE)]

\* initialize after getMediaStream returned a stream (audio: it has an audio
\* track), then startWebRTCStreaming up to its await of pc.createOffer().
\* pcOk, dcOk: whether new RTCPeerConnection and createDataChannel succeed.
SAfterCapture(audio, pcOk, dcOk) ==
    LET id == Len(streams) + 1 IN
    /\ streams' = Append(streams, [audio |-> audio, stops |-> 0])
    /\ sHost' = IF pcOk
                THEN [sHost EXCEPT !.signalingState = "stable", !.audioSender = audio]
                ELSE sHost
    /\ streamer' = [streamer EXCEPT
            !.localStream = id,
            !.hasAudio = audio,
            !.peerConnection = pcOk,
            !.dataChannel = pcOk /\ dcOk,
            !.signalingInterval = @ \/ (pcOk /\ dcOk /\ sFlow.current)]
    /\ sFlow' = [sFlow EXCEPT !.at = IF pcOk /\ dcOk /\ sFlow.current
                                     THEN "createOffer" ELSE "failed"]
    /\ obs' = [obs EXCEPT !.audioStatus = AudioStatus(audio)]

\* getUserMedia({video, audio: true}) settles
SInitGumAV(ok, pcOk, dcOk) ==
    /\ sFlow.at = "gumAV"
    /\ IF ok
       THEN SAfterCapture(TRUE, pcOk, dcOk)
       ELSE /\ sFlow' = [sFlow EXCEPT !.at = "gumV"]
            /\ UNCHANGED <<streams, sHost, streamer, obs>>
    /\ UNCHANGED <<relay, now, sTasks, receiver, rTasks, pcs, rHost>>

\* getUserMedia({video}) settles; when it fails too, getMediaStream throws,
\* initialize rethrows and startWebRTCStreaming's catch runs
SInitGumV(ok, pcOk, dcOk) ==
    /\ sFlow.at = "gumV"
    /\ IF ok
       THEN SAfterCapture(FALSE, pcOk, dcOk)
       ELSE /\ sFlow' = [sFlow EXCEPT !.at = "failed"]
            /\ UNCHANGED <<streams, sHost, streamer, obs>>
    /\ UNCHANGED <<relay, now, sTasks, receiver, rTasks, pcs, rHost>>

\* createOffer after pc.createOffer() and setLocalDescription(offer) settled
\* (nothing of the session changes between the two, and a cleanup before
\* either makes it fail): the offer is published, and startWebRTCStreaming
\* goes on to startQualityAdaptation, which reads webrtcStreamer.current
SCreateOfferDone(ok) ==
    /\ sFlow.at = "createOffer"
    /\ IF ok /\ sHost.signalingState # "closed"
       THEN /\ sHost' = [sHost EXCEPT !.signalingState = "have-local-offer",
                                      !.localDescription = TRUE]
            /\ Publish("offer", NoSender, "none", 0)
            /\ sFlow' = [sFlow EXCEPT !.at = IF sFlow.current THEN "started" ELSE "failed"]
       ELSE /\ sFlow' = [sFlow EXCEPT !.at = "failed"]
            /\ UNCHANGED <<sHost, relay, now>>
    /\ UNCHANGED <<streamer, sTasks, streams, receiver, rTasks, pcs, rHost, obs>>

\* peerConnection.onicecandidate with a candidate: published without senderId
SOnIceCandidate(dt) ==
    /\ sHost.localDescription
    /\ sHost.signalingState # "closed"
    /\ sHost.candidates < sHost.toGather
    /\ sHost' = [sHost EXCEPT !.candidates = @ + 1]
    /\ Publish("ice-candidate", NoSender, "none", dt)
    /\ UNCHANGED <<streamer, sFlow, sTasks, streams, receiver, rTasks, pcs, rHost, obs>>

(* ------------------------ streamer: changeQuality ---------------------- *)

\* a handler invocation that awaits a host promise
Task(tid, kind, msg, quality, step, stream) ==
    [tid |-> tid, kind |-> kind, msg |-> msg, quality |-> quality,
     step |-> step, stream |-> stream]

CqTasks(tasks) == {t \in tasks : t.kind = "cq"}

\* changeQuality(newQuality) up to its first await: nothing when the level is
\* the current one, else getMediaStream asks for video and audio.
\* msg: the relay envelope that asked for it, 0 when it was not the relay
StartChangeQuality(tasks, quality, msg) ==
    IF quality = streamer.currentQuality
    THEN tasks
    ELSE tasks \cup {Task(FreshTid(tasks), "cq", msg, quality, "gumAV", 0)}

\* changeQuality lines 236-243: stop the old tracks, install the new stream,
\* set currentQuality; this.localStream being null throws into the catch
CqInstall(t) ==
    IF streamer.localStream = 0
    THEN UNCHANGED <<streams, streamer>>
    ELSE /\ streams' = StopTracks(streams, streamer.localStream)
         /\ streamer' = [streamer EXCEPT !.localStream = t.stream,
                                         !.currentQuality = t.quality]

\* changeQuality after getMediaStream returned a stream: the audio status
\* is set, and reported when it changed, before any track is replaced
CqAcquired(t, audio) ==
    LET id == Len(streams) + 1 IN
    /\ streams' = Append(streams, [audio |-> audio, stops |-> 0])
    /\ obs' = IF audio # streamer.hasAudio
              THEN [obs EXCEPT !.audioStatus = AudioStatus(audio)]
              ELSE obs
    /\ IF streamer.peerConnection /\ streamer.localStream # 0
       THEN /\ streamer' = [streamer EXCEPT !.hasAudio = audio]
            /\ sTasks' = (sTasks \ {t}) \cup {[t EXCEPT !.step = "replaceVideo", !.stream = id]}
       ELSE /\ streamer' = [streamer EXCEPT !.hasAudio = audio, !.currentQuality = t.quality]
            /\ sTasks' = sTasks \ {t}

\* a getUserMedia call of changeQuality settles
SCqGum(t, ok) ==
    /\ t \in sTasks /\ t.kind = "cq" /\ t.step \in {"gumAV", "gumV"}
    /\ IF ok
       THEN CqAcquired(t, t.step = "gumAV")
       ELSE /\ sTasks' = IF t.step = "gumAV"
                         THEN (sTasks \ {t}) \cup {[t EXCEPT !.step = "gumV"]}
                         ELSE sTasks \ {t}
            /\ UNCHANGED <<streams, streamer, obs>>
    /\ UNCHANGED <<relay, now, sFlow, sHost, receiver, rTasks, pcs, rHost>>

\* videoSender.replaceTrack settles; when it rejects, the catch of
\* changeQuality logs the error and the promise changeQuality returned is
\* fulfilled
SCqReplaceVideo(t, ok) ==
    /\ t \in sTasks /\ t.kind = "cq" /\ t.step = "replaceVideo"
    /\ IF ~ok \/ sHost.signalingState = "closed" \/ ~streamer.peerConnection
       THEN /\ sTasks' = sTasks \ {t}
            /\ obs' = [obs EXCEPT !.replaceFailure = "fulfilled"]
            /\ UNCHANGED <<streams, streamer, sHost>>
       ELSE IF streams[t.stream].audio /\ sHost.audioSender
       THEN /\ sTasks' = (sTasks \ {t}) \cup {[t EXCEPT !.step = "replaceAudio"]}
            /\ UNCHANGED <<streams, streamer, sHost, obs>>
       ELSE /\ sTasks' = sTasks \ {t}
            /\ sHost' = [sHost EXCEPT !.audioSender = @ \/ streams[t.stream].audio]
            /\ CqInstall(t)
            /\ obs' = obs
    /\ UNCHANGED <<relay, now, sFlow, receiver, rTasks, pcs, rHost>>

\* audioSender.replaceTrack settles
SCqReplaceAudio(t, ok) ==
    /\ t \in sTasks /\ t.kind = "cq" /\ t.step = "replaceAudio"
    /\ sTasks' = sTasks \ {t}
    /\ IF ~ok \/ sHost.signalingState = "closed"
       THEN /\ obs' = [obs EXCEPT !.replaceFailure = "fulfilled"]
            /\ UNCHANGED <<streams, streamer>>
       ELSE /\ CqInstall(t)
            /\ obs' = obs
    /\ UNCHANGED <<relay, now, sFlow, sHost, receiver, rTasks, pcs, rHost>>

\* the page's streamingQuality as the subscription callback of
\* startQualityAdaptation captured it: the state of the render that started
\* the stream, in which no quality change has been reported yet
streamingQuality == "low"

\* capture streams still to be handed out to new changeQuality calls
StreamBudget(tasks) == MaxStreams - Len(streams) - Cardinality(CqTasks(tasks))

\* the focus subscription of startQualityAdaptation reports an assignment
\* update: 'high' when an operator is focused, 'low' when none is
SFocusChange(focused) ==
    LET newQuality == IF focused THEN "high" ELSE "low" IN
    /\ sFlow.at = "started"
    /\ sTasks' = IF sFlow.current /\ newQuality # streamingQuality
                 THEN StartChangeQuality(sTasks, newQuality, 0)
                 ELSE sTasks
    /\ StreamBudget(sTasks') >= 0
    /\ obs' = [obs EXCEPT !.focus = newQuality, !.overlap = CqTasks(sTasks) # {}]
    /\ UNCHANGED <<relay, now, streamer, sFlow, sHost, streams,
                   receiver, rTasks, pcs, rHost>>

\* dataChannel.onmessage of the channel the streamer created: the oldest
\* message the receiver sent arrives; a 'quality-change' calls changeQuality,
\* any other type is dropped
SOnDataChannelMessage ==
    /\ streamer.dataChannel
    /\ rHost.dcSent # <<>>
    /\ sTasks' = IF Head(rHost.dcSent).type = "quality-change"
                 THEN StartChangeQuality(sTasks, Head(rHost.dcSent).quality, 0)
                 ELSE sTasks
    /\ StreamBudget(sTasks') >= 0
    /\ rHost' = [rHost EXCEPT !.dcSent = Tail(@)]
    /\ UNCHANGED <<relay, now, streamer, sFlow, sHost, streams, receiver, rTasks, pcs, obs>>

(* --------------------------- streamer: polling ------------------------- *)

\* the callback of messages.forEach for envelope i, up to its first await.
\* acc: the parsed array, the invocations in flight, and the observations
SHandle(i, acc) ==
    LET m == relay[i] IN
    IF m.processed THEN acc
    ELSE IF m.type = "answer"
    THEN [acc EXCEPT
            !.applied = Bump(@, i),
            !.tasks = IF streamer.peerConnection
                      THEN @ \cup {Task(0, "answer", i, "none", "setRemoteDescription", 0)}
                      ELSE @]
    ELSE IF m.type = "ice-candidate"
    THEN [acc EXCEPT
            !.applied = Bump(@, i),
            !.addNoRemote = @ \/ (streamer.peerConnection /\ ~sHost.remoteDescription)]
    ELSE IF m.type = "quality-request"
    THEN [acc EXCEPT
            !.applied = Bump(@, i),
            !.tasks = StartChangeQuality(@, m.quality, i)]
    ELSE [acc EXCEPT !.store[i].processed = TRUE]

RECURSIVE SForEach(_, _)
SForEach(i, acc) ==
    IF i > Len(relay) THEN acc ELSE SForEach(i + 1, SHandle(i, acc))

\* one tick of the streamer's setInterval callback: parse the array, start a
\* handler on every envelope, write the array back.  A handler that awaits
\* sets message.processed only after the write, on an object nobody reads.
SPoll ==
    LET acc == SForEach(1, [store |-> relay, tasks |-> sTasks,
                            applied |-> obs.sApplied,
                            addNoRemote |-> obs.sAddNoRemote]) IN
    /\ streamer.signalingInterval
    /\ StreamBudget(acc.tasks) >= 0
    /\ relay' = acc.store
    /\ sTasks' = acc.tasks
    /\ obs' = [obs EXCEPT !.sApplied = acc.applied, !.sAddNoRemote = acc.addNoRemote]
    /\ UNCHANGED <<now, streamer, sFlow, sHost, streams, receiver, rTasks, pcs, rHost>>

\* handleAnswer: peerConnection.setRemoteDescription(answer) settles; the host
\* accepts an answer only while a local offer is outstanding
SAnswerDone(t, ok) ==
    /\ t \in sTasks /\ t.kind = "answer"
    /\ sTasks' = sTasks \ {t}
    /\ sHost' = IF ok /\ sHost.signalingState = "have-local-offer"
                THEN [sHost EXCEPT !.signalingState = "stable",
                                   !.remoteDescription = TRUE]
                ELSE sHost
    /\ UNCHANGED <<relay, now, streamer, sFlow, streams, receiver, rTasks, pcs, rHost, obs>>

(* --------------------------- streamer: cleanup ------------------------- *)

\* a faulty cleanup, for comparison: it closes the connection and keeps the
\* reference to it
StreamerCleanupKeepsConnection ==
    /\ streams' = IF streamer.localStream # 0
                  THEN StopTracks(streams, streamer.localStream) ELSE streams
    /\ sHost' = [sHost EXCEPT
            !.dcCloses = IF streamer.dataChannel THEN Inc(@) ELSE @,
            !.pcCloses = IF streamer.peerConnection THEN Inc(@) ELSE @,
            !.signalingState = IF streamer.peerConnection THEN "closed" ELSE @]
    /\ streamer' = [streamer EXCEPT !.signalingInterval = FALSE,
                                    !.localStream = 0,
                                    !.dataChannel = FALSE]

\* WebRTCStreamer.cleanup
StreamerCleanup ==
    /\ streams' = IF streamer.localStream # 0
                  THEN StopTracks(streams, streamer.localStream) ELSE streams
    /\ sHost' = [sHost EXCEPT
            !.dcCloses = IF streamer.dataChannel THEN Inc(@) ELSE @,
            !.pcCloses = IF streamer.peerConnection THEN Inc(@) ELSE @,
            !.signalingState = IF streamer.peerConnection THEN "closed" ELSE @]
    /\ streamer' = [streamer EXCEPT !.signalingInterval = FALSE,
                                    !.localStream = 0,
                                    !.dataChannel = FALSE,
                                    !.peerConnection = FALSE]

\* what WebRTCStreamer.cleanup releases, in the order of its statements
StreamerReleases ==
    (IF streamer.signalingInterval THEN <<"timer">> ELSE <<>>)
    \o (IF streamer.localStream # 0 THEN <<"tracks">> ELSE <<>>)
    \o (IF streamer.dataChannel THEN <<"dataChannel">> ELSE <<>>)
    \o (IF streamer.peerConnection THEN <<"peerConnection">> ELSE <<>>)

\* the page unmounts (or its id changes): the effect's cleanup calls
\* webrtcStreamer.current.cleanup() and keeps the reference
SUnmount ==
    /\ sFlow.current
    /\ StreamerCleanup
    /\ obs' = [obs EXCEPT !.sCleanups = Inc(@), !.sReleases = StreamerReleases]
    /\ UNCHANGED <<relay, now, sFlow, sTasks, receiver, rTasks, pcs, rHost>>

\* stopWebRTCStreaming: cleanup, then webrtcStreamer.current = null
SStop ==
    /\ sFlow.current
    /\ StreamerCleanup
    /\ sFlow' = [sFlow EXCEPT !.current = FALSE]
    /\ obs' = [obs EXCEPT !.sCleanups = Inc(@), !.sReleases = StreamerReleases]
    /\ UNCHANGED <<relay, now, sTasks, receiver, rTasks, pcs, rHost>>

(* ------------------------ receiver: initialize ------------------------- *)

\* a new RTCPeerConnection of the receiver; cands: the addIceCandidate calls
PcNew ==
    [signalingState |-> "stable", remoteDescription |-> FALSE,
     localDescription |-> FALSE, closes |-> 0, cands |-> <<>>]

\* `${message.type}-${message.timestamp}-${message.senderId}`
MessageId(m) == <<m.type, m.timestamp, m.senderId>>

\* WebRTCReceiver.initialize, called by the VideoStream effect: none of its
\* awaits waits for the host, so it runs in one piece.  pcOk: whether
\* new RTCPeerConnection succeeds
RInitialize(pcOk) ==
    /\ ~rHost.started
    /\ rHost' = [rHost EXCEPT !.started = TRUE, !.webrtcReceiver = pcOk]
    /\ IF pcOk
       THEN /\ pcs' = Append(pcs, PcNew)
            /\ receiver' = [receiver EXCEPT !.peerConnection = Len(pcs) + 1,
                                            !.signalingInterval = TRUE]
            /\ Publish("connection-request", OperatorId, "none", 0)
       ELSE UNCHANGED <<pcs, receiver, relay, now>>
    /\ UNCHANGED <<streamer, sFlow, sTasks, sHost, streams, rTasks, obs>>

(* -------------------------- receiver: handlers ------------------------- *)

\* a handleOffer invocation in flight: the connection pc its host call is on,
\* and the array arr its for-of loop walks, at position k; aliased while
\* this.pendingIceCandidates still is that array
OfferTask(tid, msg, step, pc, k, arr, aliased) ==
    [tid |-> tid, kind |-> "offer", msg |-> msg, step |-> step, pc |-> pc,
     k |-> k, arr |-> arr, aliased |-> aliased]

IceTask(msg) ==
    [tid |-> 0, kind |-> "ice", msg |-> msg, step |-> "addIceCandidate", pc |-> 0,
     k |-> 0, arr |-> <<>>, aliased |-> FALSE]

OfferTasks(tasks) == {t \in tasks : t.kind = "offer"}

\* this.pendingIceCandidates = []: the loops in flight keep the old array
Unalias(tasks) == {[t EXCEPT !.aliased = FALSE] : t \in tasks}

\* this.pendingIceCandidates.push(c): a loop walking that array sees it
PushAliased(tasks, c) ==
    {IF t.aliased THEN [t EXCEPT !.arr = Append(@, c)] ELSE t : t \in tasks}

\* peerConnection.addIceCandidate(candidate of envelope c) is called on
\* connection p; the history keeps up to MaxCount calls per envelope
AddCall(ps, p, c) ==
    IF Cardinality({j \in 1..Len(ps[p].cands) : ps[p].cands[j] = c}) < MaxCount
    THEN [ps EXCEPT ![p].cands = Append(@, c)]
    ELSE ps

\* resetPeerConnection.  The connection-request it publishes is written to
\* localStorage from inside the forEach of a poll tick, and the tick's own
\* setItem then writes back the array it parsed before: the envelope is gone
ResetPeerConnection(acc) ==
    [acc EXCEPT
        !.pcs = Append([@ EXCEPT ![acc.rec.peerConnection].closes = Inc(@),
                                 ![acc.rec.peerConnection].signalingState = "closed"],
                       PcNew),
        !.rec.remoteDescriptionSet = FALSE,
        !.rec.pendingIceCandidates = <<>>,
        !.rec.peerConnection = Len(acc.pcs) + 1,
        !.tasks = Unalias(@)]

\* a faulty poll callback, for comparison: its handleOffer resets the
\* connection in every signalling state but stable
RHandleResetsUnstable(i, acc) ==
    LET m == relay[i]
        p == acc.rec.peerConnection IN
    IF m.processed \/ m.senderId = OperatorId THEN acc
    ELSE IF MessageId(m) \in acc.rec.processedMessages
    THEN [acc EXCEPT !.falseDup = @ \/ (obs.watch /\ Count(acc.applied, i) = 0)]
    ELSE IF m.type = "offer"
    THEN IF p = 0
         THEN [acc EXCEPT !.applied = Bump(@, i)]
         ELSE IF acc.pcs[p].signalingState # "stable"
         THEN [ResetPeerConnection(acc) EXCEPT
                    !.applied = Bump(@, i),
                    !.micro = @ \cup {MessageId(m)}]
         ELSE [acc EXCEPT
                    !.applied = Bump(@, i),
                    !.tasks = @ \cup {OfferTask(FreshTid(OfferTasks(acc.tasks)), i,
                                      "setRemoteDescription", p, 0, <<>>, FALSE)}]
    ELSE IF m.type = "ice-candidate"
    THEN IF p = 0
         THEN [acc EXCEPT !.applied = Bump(@, i)]
         ELSE IF ~acc.rec.remoteDescriptionSet
         THEN [acc EXCEPT
                    !.applied = Bump(@, i),
                    !.rec.pendingIceCandidates = Append(@, i),
                    !.tasks = PushAliased(@, i),
                    !.micro = @ \cup {MessageId(m)}]
         ELSE [acc EXCEPT
                    !.applied = Bump(@, i),
                    !.pcs = AddCall(@, p, i),
                    !.addNoRemote = @ \/ ~acc.pcs[p].remoteDescription,
                    !.tasks = @ \cup {IceTask(i)}]
    ELSE [acc EXCEPT !.store[i].processed = TRUE,
                     !.rec.processedMessages = @ \cup {MessageId(m)}]

\* the callback of messages.forEach for envelope i, up to its first await
\* on the host.  acc.micro: the ids that the microtasks of this tick add to
\* processedMessages once the loop and the write-back are over
RHandle(i, acc) ==
    LET m == relay[i]
        p == acc.rec.peerConnection IN
    IF m.processed \/ m.senderId = OperatorId THEN acc
    ELSE IF MessageId(m) \in acc.rec.processedMessages
    THEN [acc EXCEPT !.falseDup = @ \/ (obs.watch /\ Count(acc.applied, i) = 0)]
    ELSE IF m.type = "offer"
    THEN IF p = 0
         THEN [acc EXCEPT !.applied = Bump(@, i)]
         ELSE IF acc.pcs[p].signalingState = "have-local-offer"
         THEN [ResetPeerConnection(acc) EXCEPT
                    !.applied = Bump(@, i),
                    !.micro = @ \cup {MessageId(m)}]
         ELSE [acc EXCEPT
                    !.applied = Bump(@, i),
                    !.tasks = @ \cup {OfferTask(FreshTid(OfferTasks(acc.tasks)), i,
                                      "setRemoteDescription", p, 0, <<>>, FALSE)}]
    ELSE IF m.type = "ice-candidate"
    THEN IF p = 0
         THEN [acc EXCEPT !.applied = Bump(@, i)]
         ELSE IF ~acc.rec.remoteDescriptionSet
         THEN [acc EXCEPT
                    !.applied = Bump(@, i),
                    !.rec.pendingIceCandidates = Append(@, i),
                    !.tasks = PushAliased(@, i),
                    !.micro = @ \cup {MessageId(m)}]
         ELSE [acc EXCEPT
                    !.applied = Bump(@, i),
                    !.pcs = AddCall(@, p, i),
                    !.addNoRemote = @ \/ ~acc.pcs[p].remoteDescription,
                    !.tasks = @ \cup {IceTask(i)}]
    ELSE [acc EXCEPT !.store[i].processed = TRUE,
                     !.rec.processedMessages = @ \cup {MessageId(m)}]

RECURSIVE RForEach(_, _)
RForEach(i, acc) ==
    IF i > Len(relay) THEN acc ELSE RForEach(i + 1, RHandle(i, acc))

\* one tick of the receiver's setInterval callback
RPoll ==
    LET acc == RForEach(1, [store |-> relay, rec |-> receiver, tasks |-> rTasks,
                            pcs |-> pcs, applied |-> obs.rApplied,
                            addNoRemote |-> obs.rAddNoRemote, micro |-> {},
                            falseDup |-> obs.falseDuplicate]) IN
    /\ receiver.signalingInterval
    /\ Cardinality(OfferTasks(acc.tasks)) <= MaxTasks
    /\ relay' = acc.store
    /\ receiver' = [acc.rec EXCEPT !.processedMessages = @ \cup acc.micro]
    /\ rTasks' = acc.tasks
    /\ pcs' = acc.pcs
    /\ obs' = [obs EXCEPT !.rApplied = acc.applied, !.rAddNoRemote = acc.addNoRemote,
                          !.falseDuplicate = acc.falseDup]
    /\ UNCHANGED <<now, streamer, sFlow, sTasks, sHost, streams, rHost>>

\* the caller of a handler after it returned: processedMessages.add(messageId)
MarkProcessed(rec, t) ==
    [rec EXCEPT !.processedMessages = @ \cup {MessageId(relay[t.msg])}]

\* handleOffer lines 143-171 from position t1.k of its for-of loop, up to the
\* next await on the host.  t0: the invocation as it was; rec, ps, o: the
\* receiver's fields, the connections and the observations as the caller
\* leaves them
OfferContinue(t0, t1, rec, ps, o) ==
    LET p == rec.peerConnection
        over == [rec EXCEPT !.pendingIceCandidates = <<>>]
        rest == Unalias(rTasks \ {t0}) IN
    /\ UNCHANGED <<relay, now>>
    /\ IF p # 0 /\ t1.k <= Len(t1.arr)
       THEN /\ pcs' = AddCall(ps, p, t1.arr[t1.k])
            /\ obs' = [o EXCEPT !.rAddNoRemote = @ \/ ~ps[p].remoteDescription]
            /\ receiver' = rec
            /\ rTasks' = (rTasks \ {t0}) \cup {[t1 EXCEPT !.step = "drain"]}
       ELSE /\ pcs' = ps
            /\ obs' = o
            /\ IF p = 0
               THEN /\ receiver' = MarkProcessed([over EXCEPT !.remoteDescriptionSet = FALSE], t0)
                    /\ rTasks' = rest
               ELSE IF ps[p].signalingState = "have-remote-offer"
               THEN /\ receiver' = over
                    /\ rTasks' = rest \cup {[t1 EXCEPT !.step = "answer", !.pc = p,
                                                       !.aliased = FALSE]}
               ELSE /\ receiver' = MarkProcessed(over, t0)
                    /\ rTasks' = rest

\* handleOffer: peerConnection.setRemoteDescription(offer) settles
ROfferSrdDone(t, ok) ==
    /\ t \in rTasks /\ t.kind = "offer" /\ t.step = "setRemoteDescription"
    /\ IF ok /\ pcs[t.pc].signalingState \in {"stable", "have-remote-offer"}
       THEN OfferContinue(t,
                [t EXCEPT !.k = 1, !.arr = receiver.pendingIceCandidates, !.aliased = TRUE],
                [receiver EXCEPT !.remoteDescriptionSet = TRUE],
                [pcs EXCEPT ![t.pc].signalingState = "have-remote-offer",
                            ![t.pc].remoteDescription = TRUE],
                obs)
       ELSE /\ receiver' = MarkProcessed([receiver EXCEPT !.remoteDescriptionSet = FALSE], t)
            /\ rTasks' = rTasks \ {t}
            /\ UNCHANGED <<relay, now, pcs, obs>>
    /\ UNCHANGED <<streamer, sFlow, sTasks, sHost, streams, rHost>>

\* a faulty handleOffer, for comparison: a buffered candidate that fails
\* ends the invocation in the outer catch
ROfferDrainDoneAborts(t, ok) ==
    /\ t \in rTasks /\ t.kind = "offer" /\ t.step = "drain"
    /\ IF ok
       THEN OfferContinue(t, [t EXCEPT !.k = @ + 1], receiver, pcs, obs)
       ELSE /\ receiver' = MarkProcessed([receiver EXCEPT !.remoteDescriptionSet = FALSE], t)
            /\ rTasks' = rTasks \ {t}
            /\ obs' = [obs EXCEPT !.badCandidate = t.arr[t.k]]
            /\ UNCHANGED <<relay, now, pcs>>
    /\ UNCHANGED <<streamer, sFlow, sTasks, sHost, streams, rHost>>

\* handleOffer: the addIceCandidate of a buffered candidate settles; when it
\* rejects, the catch inside the loop logs the error and the loop goes on
ROfferDrainDone(t, ok) ==
    /\ t \in rTasks /\ t.kind = "offer" /\ t.step = "drain"
    /\ OfferContinue(t, [t EXCEPT !.k = @ + 1], receiver, pcs,
                     IF ok THEN obs ELSE [obs EXCEPT !.badCandidate = t.arr[t.k]])
    /\ UNCHANGED <<streamer, sFlow, sTasks, sHost, streams, rHost>>

\* handleOffer: createAnswer and setLocalDescription(answer) settle (the
\* session's state does not change between the two), the answer is published
ROfferAnswerDone(t, ok) ==
    /\ t \in rTasks /\ t.kind = "offer" /\ t.step = "answer"
    /\ rTasks' = rTasks \ {t}
    /\ IF ok /\ receiver.peerConnection = t.pc
             /\ pcs[t.pc].signalingState = "have-remote-offer"
       THEN /\ pcs' = [pcs EXCEPT ![t.pc].signalingState = "stable",
                                  ![t.pc].localDescription = TRUE]
            /\ Publish("answer", OperatorId, "none", 0)
            /\ receiver' = MarkProcessed(receiver, t)
       ELSE /\ receiver' = MarkProcessed([receiver EXCEPT !.remoteDescriptionSet = FALSE], t)
            /\ UNCHANGED <<pcs, relay, now>>
    /\ UNCHANGED <<streamer, sFlow, sTasks, sHost, streams, rHost, obs>>

\* handleIceCandidate: peerConnection.addIceCandidate settles
RIceDone(t) ==
    /\ t \in rTasks /\ t.kind = "ice"
    /\ rTasks' = rTasks \ {t}
    /\ receiver' = MarkProcessed(receiver, t)
    /\ UNCHANGED <<relay, now, streamer, sFlow, sTasks, sHost, streams, pcs, rHost, obs>>

\* peerConnection.onicecandidate of the receiver: published with its senderId
ROnIceCandidate ==
    /\ \E p \in 1..Len(pcs) : pcs[p].localDescription /\ pcs[p].signalingState # "closed"
    /\ rHost.candidates < rHost.toGather
    /\ rHost' = [rHost EXCEPT !.candidates = @ + 1]
    /\ Publish("ice-candidate", OperatorId, "none", 0)
    /\ UNCHANGED <<streamer, sFlow, sTasks, sHost, streams, receiver, rTasks, pcs, obs>>

\* both ends hold both descriptions and neither connection is closed
PeersConnected ==
    /\ sHost.signalingState = "stable" /\ sHost.remoteDescription
    /\ receiver.peerConnection # 0
    /\ pcs[receiver.peerConnection].signalingState = "stable"
    /\ pcs[receiver.peerConnection].localDescription

\* peerConnection.ondatachannel of the receiver: the streamer's channel arrives
ROnDataChannel ==
    /\ PeersConnected
    /\ sHost.dcCloses = 0 /\ rHost.dcCloses = 0
    /\ ~receiver.dataChannel
    /\ receiver' = [receiver EXCEPT !.dataChannel = TRUE]
    /\ UNCHANGED <<relay, now, streamer, sFlow, sTasks, sHost, streams, rTasks, pcs, rHost, obs>>

\* the focus effect of VideoStream on a connected receiver when isFocused
\* changes: requestFocus or releaseFocus, that is requestQualityChange('high'
\* or 'low'), which returns at once for the receiver's currentQuality, and
\* else publishes the request and sends a copy over the data channel when
\* that is open.  obs.requests: the focus changes so far
RRequestQuality(focused) ==
    LET quality == IF focused THEN "high" ELSE "low"
        open == receiver.dataChannel /\ sHost.dcCloses = 0 /\ rHost.dcCloses = 0 IN
    /\ rHost.webrtcReceiver /\ PeersConnected
    /\ focused # rHost.isFocused
    /\ obs.requests < MaxQualityRequests
    /\ IF quality # receiver.currentQuality
       THEN /\ Publish("quality-request", OperatorId, quality, 0)
            /\ rHost' = [rHost EXCEPT
                    !.isFocused = focused,
                    !.dcSent = IF open
                               THEN Append(@, [type |-> "quality-request",
                                               quality |-> quality])
                               ELSE @]
       ELSE /\ rHost' = [rHost EXCEPT !.isFocused = focused]
            /\ UNCHANGED <<relay, now>>
    /\ obs' = [obs EXCEPT !.requests = @ + 1]
    /\ UNCHANGED <<streamer, sFlow, sTasks, sHost, streams, receiver, rTasks, pcs>>

(* --------------------------- receiver: cleanup ------------------------- *)

\* what WebRTCReceiver.cleanup releases, in the order of its statements
ReceiverReleases ==
    (IF receiver.signalingInterval THEN <<"timer">> ELSE <<>>)
    \o (IF receiver.dataChannel THEN <<"dataChannel">> ELSE <<>>)
    \o (IF receiver.peerConnection # 0 THEN <<"peerConnection">> ELSE <<>>)

\* WebRTCReceiver.cleanup, called by cleanupWebRTC of VideoStream
RCleanup ==
    /\ rHost.webrtcReceiver
    /\ rHost' = [rHost EXCEPT !.dcCloses = IF receiver.dataChannel THEN Inc(@) ELSE @]
    /\ pcs' = IF receiver.peerConnection # 0
              THEN [pcs EXCEPT ![receiver.peerConnection].closes = Inc(@),
                               ![receiver.peerConnection].signalingState = "closed"]
              ELSE pcs
    /\ receiver' = [receiver EXCEPT !.signalingInterval = FALSE,
                                    !.dataChannel = FALSE,
                                    !.peerConnection = 0,
                                    !.remoteDescriptionSet = FALSE,
                                    !.pendingIceCandidates = <<>>,
                                    !.processedMessages = {}]
    /\ rTasks' = Unalias(rTasks)
    /\ obs' = [obs EXCEPT !.rCleanups = Inc(@), !.rReleases = ReceiverReleases]
    /\ UNCHANGED <<relay, now, streamer, sFlow, sTasks, sHost, streams>>

(* ---------------------- the VideoStream component --------------------- *)

\* The receivers of one component instance, each reduced to its poll timer.
\* An effect, an effect cleanup and a render run inside React's work loop,
\* an async function resumes after its await in a microtask, when the work
\* loop has returned: React may render and run effects in between.

\* cleanupWebRTC as a render with webrtcReceiver = r defined it, up to its
\* await: receiver.cleanup() stops the timer
CleanupWebRTC(v, r) ==
    IF r = 0 THEN v
    ELSE [v EXCEPT !.sessions[r] = [timer |-> FALSE, cleanups |-> Inc(@.cleanups)],
                   !.pending = @ \cup {[kind |-> "cleanupWebRTC", session |-> r]}]

\* initializeWebRTC up to the first await inside receiver.initialize(): the
\* receiver is constructed, creates its connection and starts its timer.
\* pcOk: whether new RTCPeerConnection succeeds; when it throws, the catch of
\* initializeWebRTC logs and the receiver holds nothing
InitializeWebRTC(v, pcOk) ==
    IF ~pcOk THEN v
    ELSE [v EXCEPT !.sessions = Append(@, [timer |-> TRUE, cleanups |-> 0]),
                   !.pending = @ \cup {[kind |-> "initializeWebRTC",
                                        session |-> Len(v.sessions) + 1]}]

\* the body of the WebRTC effect with the props and state of its render
\* (operatorId is given)
RunEffect(v, pcOk) ==
    LET w == [v EXCEPT !.seen = v.webrtcReceiver] IN
    IF v.useWebRTC /\ v.webrtcReceiver = 0 THEN InitializeWebRTC(w, pcOk)
    ELSE IF ~v.useWebRTC /\ v.webrtcReceiver # 0 THEN CleanupWebRTC(w, v.webrtcReceiver)
    ELSE w

\* the function the effect returned: mounted = false, which nothing reads
\* any more, and cleanupWebRTC() when its render had a receiver
EffectCleanup(v) == CleanupWebRTC(v, v.seen)

ViewStep(v) ==
    /\ Len(v.sessions) <= MaxSessions
    /\ rHost' = [rHost EXCEPT !.view = v]
    /\ UNCHANGED <<relay, now, streamer, sFlow, sTasks, sHost, streams,
                   receiver, rTasks, pcs, obs>>

\* the component mounts and its effect runs
VMount(useWebRTC, pcOk) ==
    /\ rHost.view.phase = "new"
    /\ ViewStep(RunEffect([rHost.view EXCEPT !.phase = "mounted",
                                            !.useWebRTC = useWebRTC], pcOk))

\* the parent renders the component with another useWebRTC or id: the
\* effect's dependencies changed, so its cleanup runs and then the effect
VSetProps(useWebRTC, id, pcOk) ==
    /\ rHost.view.phase = "mounted"
    /\ <<useWebRTC, id>> # <<rHost.view.useWebRTC, rHost.view.id>>
    /\ ViewStep(RunEffect(EffectCleanup([rHost.view EXCEPT !.useWebRTC = useWebRTC,
                                                          !.id = id]), pcOk))

\* the render after setWebrtcReceiver changed the state
VRender(pcOk) ==
    /\ rHost.view.phase = "mounted"
    /\ rHost.view.webrtcReceiver # rHost.view.seen
    /\ ViewStep(RunEffect(EffectCleanup(rHost.view), pcOk))

\* an async function resumes: initializeWebRTC after receiver.initialize()
\* calls setWebrtcReceiver(receiver), cleanupWebRTC after receiver.cleanup()
\* calls setWebrtcReceiver(null); neither looks whether the component is
\* still mounted, and a state update of an unmounted component is dropped
VResume(c) ==
    /\ c \in rHost.view.pending
    /\ ViewStep([rHost.view EXCEPT
            !.pending = @ \ {c},
            !.webrtcReceiver = IF rHost.view.phase # "mounted" THEN @
                               ELSE IF c.kind = "initializeWebRTC" THEN c.session
                               ELSE 0])

\* the component unmounts: the cleanup of the effect that ran last
VUnmount ==
    /\ rHost.view.phase = "mounted"
    /\ ViewStep(EffectCleanup([rHost.view EXCEPT !.phase = "unmounted"]))

(* --------------------------- specifications ---------------------------- *)

\* offer and answer over the relay; of the host's calls only the capture
\* with audio may fail
Handshake ==
    \/ SStart
    \/ \E ok \in BOOLEAN : SInitGumAV(ok, TRUE, TRUE)
    \/ SInitGumV(TRUE, TRUE, TRUE)
    \/ SCreateOfferDone(TRUE)
    \/ SPoll
    \/ \E t \in sTasks : SAnswerDone(t, TRUE)
    \/ RInitialize(TRUE)
    \/ RPoll
    \/ \E t \in rTasks : ROfferSrdDone(t, TRUE)
    \/ \E t \in rTasks : ROfferAnswerDone(t, TRUE)
    \/ ROnDataChannel

\* the candidates of both sides
Candidates ==
    \/ \E dt \in Lapse : SOnIceCandidate(dt)
    \/ ROnIceCandidate
    \/ \E t \in rTasks : ROfferDrainDone(t, TRUE)
    \/ \E t \in rTasks : RIceDone(t)

NextSignal == Handshake \/ Candidates

\* negotiation with candidates on both sides, handler invocations counted
Spec == Init /\ [][NextSignal]_vars

\* negotiation without candidates; either capture may fail
NextHandshake == Handshake \/ SInitGumV(FALSE, TRUE, TRUE)

SpecHandshake == InitWith(0, 0, FALSE) /\ [][NextHandshake]_vars

\* the streamer's candidates alone, as the receiver applies them
NextOrder ==
    \/ SStart
    \/ SInitGumAV(TRUE, TRUE, TRUE)
    \/ SCreateOfferDone(TRUE)
    \/ \E dt \in Lapse : SOnIceCandidate(dt)
    \/ RInitialize(TRUE)
    \/ RPoll
    \/ \E t \in rTasks : ROfferSrdDone(t, TRUE)
    \/ \E t \in rTasks : ROfferDrainDone(t, TRUE)
    \/ \E t \in rTasks : ROfferAnswerDone(t, TRUE)
    \/ \E t \in rTasks : RIceDone(t)

SpecOrder == InitWith(MaxCand, 0, FALSE) /\ [][NextOrder]_vars

\* the same with fewer candidates and the handler invocations counted
SpecDuplicates == InitWith(DrainCand, 0, TRUE) /\ [][NextOrder]_vars

\* the streamer's page alone: every host call may fail, focus changes, the
\* page stops the stream or unmounts at any time
NextStreamer ==
    \/ SStart
    \/ \E ok, pcOk, dcOk \in BOOLEAN : SInitGumAV(ok, pcOk, dcOk)
    \/ \E ok, pcOk, dcOk \in BOOLEAN : SInitGumV(ok, pcOk, dcOk)
    \/ \E ok \in BOOLEAN : SCreateOfferDone(ok)
    \/ SPoll
    \/ \E t \in sTasks, ok \in BOOLEAN : SCqGum(t, ok)
    \/ \E t \in sTasks, ok \in BOOLEAN : SCqReplaceVideo(t, ok)
    \/ \E t \in sTasks, ok \in BOOLEAN : SCqReplaceAudio(t, ok)
    \/ \E focused \in BOOLEAN : SFocusChange(focused)
    \/ SUnmount
    \/ SStop

SpecStreamer == InitWith(0, 0, FALSE) /\ [][NextStreamer]_vars

\* both roles from start to connected with their cleanups at any time; every
\* host call of the start may fail
NextCleanup ==
    \/ SStart
    \/ \E ok, pcOk, dcOk \in BOOLEAN : SInitGumAV(ok, pcOk, dcOk)
    \/ \E ok, pcOk, dcOk \in BOOLEAN : SInitGumV(ok, pcOk, dcOk)
    \/ \E ok \in BOOLEAN : SCreateOfferDone(ok)
    \/ SPoll
    \/ SUnmount
    \/ SStop
    \/ \E t \in sTasks : SAnswerDone(t, TRUE)
    \/ \E pcOk \in BOOLEAN : RInitialize(pcOk)
    \/ RPoll
    \/ \E t \in rTasks : ROfferSrdDone(t, TRUE)
    \/ \E t \in rTasks : ROfferAnswerDone(t, TRUE)
    \/ ROnDataChannel
    \/ RCleanup

SpecCleanup == InitWith(0, 0, FALSE) /\ [][NextCleanup]_vars

\* negotiation when no host call fails and every timer and every host
\* promise gets its turn
FairNext ==
    \/ SStart
    \/ SInitGumAV(TRUE, TRUE, TRUE)
    \/ SCreateOfferDone(TRUE)
    \/ SPoll
    \/ \E t \in sTasks : SAnswerDone(t, TRUE)
    \/ RInitialize(TRUE)
    \/ RPoll
    \/ \E t \in rTasks : ROfferSrdDone(t, TRUE)
    \/ \E t \in rTasks : ROfferAnswerDone(t, TRUE)
    \/ ROnDataChannel
    \/ Candidates

FairSpec ==
    /\ Init
    /\ [][FairNext]_vars
    /\ WF_vars(SStart)
    /\ WF_vars(SInitGumAV(TRUE, TRUE, TRUE))
    /\ WF_vars(SCreateOfferDone(TRUE))
    /\ WF_vars(SPoll)
    /\ WF_vars(\E t \in sTasks : SAnswerDone(t, TRUE))
    /\ WF_vars(RInitialize(TRUE))
    /\ WF_vars(RPoll)
    /\ WF_vars(\E t \in rTasks : ROfferSrdDone(t, TRUE))
    /\ WF_vars(\E t \in rTasks : ROfferAnswerDone(t, TRUE))
    /\ WF_vars(Candidates)

\* a started streamer and its quality changes when no host call fails but
\* the start's capture with audio
NextQuality ==
    \/ SStart
    \/ \E ok \in BOOLEAN : SInitGumAV(ok, TRUE, TRUE)
    \/ SInitGumV(TRUE, TRUE, TRUE)
    \/ SCreateOfferDone(TRUE)
    \/ \E focused \in BOOLEAN : SFocusChange(focused)
    \/ \E t \in sTasks : SCqGum(t, TRUE)
    \/ \E t \in sTasks : SCqReplaceVideo(t, TRUE)
    \/ \E t \in sTasks : SCqReplaceAudio(t, TRUE)

SpecQuality == InitWith(0, 0, FALSE) /\ [][NextQuality]_vars

\* the same, every host promise settling in the end; the focus reports come
\* when they come
FairQuality ==
    /\ SpecQuality
    /\ WF_vars(SStart)
    /\ WF_vars(\E ok \in BOOLEAN : SInitGumAV(ok, TRUE, TRUE))
    /\ WF_vars(SInitGumV(TRUE, TRUE, TRUE))
    /\ WF_vars(SCreateOfferDone(TRUE))
    /\ WF_vars(\E t \in sTasks : SCqGum(t, TRUE))
    /\ WF_vars(\E t \in sTasks : SCqReplaceVideo(t, TRUE))
    /\ WF_vars(\E t \in sTasks : SCqReplaceAudio(t, TRUE))

\* negotiation, then focus changes on the receiver's page and the quality
\* changes they ask for
NextFocus ==
    \/ Handshake
    \/ \E focused \in BOOLEAN : RRequestQuality(focused)
    \/ SOnDataChannelMessage
    \/ \E t \in sTasks : SCqGum(t, TRUE)
    \/ \E t \in sTasks : SCqReplaceVideo(t, TRUE)
    \/ \E t \in sTasks : SCqReplaceAudio(t, TRUE)

SpecFocus == InitWith(0, 0, FALSE) /\ [][NextFocus]_vars

\* the same, every timer, every host promise and every message on the data
\* channel getting its turn; the focus changes come when they come
FairFocus ==
    /\ SpecFocus
    /\ WF_vars(SStart)
    /\ WF_vars(\E ok \in BOOLEAN : SInitGumAV(ok, TRUE, TRUE))
    /\ WF_vars(SInitGumV(TRUE, TRUE, TRUE))
    /\ WF_vars(SCreateOfferDone(TRUE))
    /\ WF_vars(SPoll)
    /\ WF_vars(\E t \in sTasks : SAnswerDone(t, TRUE))
    /\ WF_vars(RInitialize(TRUE))
    /\ WF_vars(RPoll)
    /\ WF_vars(\E t \in rTasks : ROfferSrdDone(t, TRUE))
    /\ WF_vars(\E t \in rTasks : ROfferAnswerDone(t, TRUE))
    /\ WF_vars(ROnDataChannel)
    /\ WF_vars(SOnDataChannelMessage)
    /\ WF_vars(\E t \in sTasks : SCqGum(t, TRUE))
    /\ WF_vars(\E t \in sTasks : SCqReplaceVideo(t, TRUE))
    /\ WF_vars(\E t \in sTasks : SCqReplaceAudio(t, TRUE))

\* the receiver's side of the negotiation with the streamer's candidates,
\* where the addIceCandidate of a buffered candidate may fail
NextDrain ==
    \/ SStart
    \/ SInitGumAV(TRUE, TRUE, TRUE)
    \/ SCreateOfferDone(TRUE)
    \/ SOnIceCandidate(1)
    \/ SPoll
    \/ \E t \in sTasks : SAnswerDone(t, TRUE)
    \/ RInitialize(TRUE)
    \/ RPoll
    \/ \E t \in rTasks : ROfferSrdDone(t, TRUE)
    \/ \E t \in rTasks, ok \in BOOLEAN : ROfferDrainDone(t, ok)
    \/ \E t \in rTasks : ROfferAnswerDone(t, TRUE)
    \/ \E t \in rTasks : RIceDone(t)

SpecDrain == InitWith(DrainCand, 0, FALSE) /\ [][NextDrain]_vars

\* the same, every timer and every host promise getting its turn
FairDrain ==
    /\ SpecDrain
    /\ WF_vars(SStart)
    /\ WF_vars(SInitGumAV(TRUE, TRUE, TRUE))
    /\ WF_vars(SCreateOfferDone(TRUE))
    /\ WF_vars(SOnIceCandidate(1))
    /\ WF_vars(SPoll)
    /\ WF_vars(\E t \in sTasks : SAnswerDone(t, TRUE))
    /\ WF_vars(RInitialize(TRUE))
    /\ WF_vars(RPoll)
    /\ WF_vars(\E t \in rTasks : ROfferSrdDone(t, TRUE))
    /\ WF_vars(\E t \in rTasks, ok \in BOOLEAN : ROfferDrainDone(t, ok))
    /\ WF_vars(\E t \in rTasks : ROfferAnswerDone(t, TRUE))
    /\ WF_vars(\E t \in rTasks : RIceDone(t))

\* the receiver's side alone for an operator who opens the page when the
\* streamer has gathered its candidates: the receiver's first tick buffers
\* them all
NextDrainLate ==
    \/ SStart
    \/ SInitGumAV(TRUE, TRUE, TRUE)
    \/ SCreateOfferDone(TRUE)
    \/ SOnIceCandidate(1)
    \/ (sHost.candidates = sHost.toGather /\ RInitialize(TRUE))
    \/ RPoll
    \/ \E t \in rTasks : ROfferSrdDone(t, TRUE)
    \/ \E t \in rTasks, ok \in BOOLEAN : ROfferDrainDone(t, ok)
    \/ \E t \in rTasks : ROfferAnswerDone(t, TRUE)

SpecDrainLate == InitWith(DrainCand, 0, FALSE) /\ [][NextDrainLate]_vars

\* the same, the receiver's timer and every host promise of the receiver
\* getting its turn
FairDrainLate ==
    /\ SpecDrainLate
    /\ WF_vars(RPoll)
    /\ WF_vars(\E t \in rTasks : ROfferSrdDone(t, TRUE))
    /\ WF_vars(\E t \in rTasks, ok \in BOOLEAN : ROfferDrainDone(t, ok))
    /\ WF_vars(\E t \in rTasks : ROfferAnswerDone(t, TRUE))

\* negotiation without candidates where the receiver's setRemoteDescription
\* and its answer creation may fail
NextRetry ==
    \/ Handshake
    \/ \E t \in rTasks : ROfferSrdDone(t, FALSE)
    \/ \E t \in rTasks : ROfferAnswerDone(t, FALSE)

SpecRetry == InitWith(0, 0, FALSE) /\ [][NextRetry]_vars

\* one VideoStream component from mount to unmount
NextView ==
    \/ \E useWebRTC, pcOk \in BOOLEAN : VMount(useWebRTC, pcOk)
    \/ \E useWebRTC, pcOk \in BOOLEAN, id \in {1, 2} : VSetProps(useWebRTC, id, pcOk)
    \/ \E pcOk \in BOOLEAN : VRender(pcOk)
    \/ \E c \in rHost.view.pending : VResume(c)
    \/ VUnmount

SpecView == InitWith(0, 0, FALSE) /\ [][NextView]_vars

(* ------------------------------- claims -------------------------------- *)

OfferPublished == \E i \in 1..Len(relay) : relay[i].type = "offer"

\* the streamer applied an answer: its connection is stable with a remote
\* description
StreamerConnected ==
    /\ streamer.peerConnection
    /\ sHost.signalingState = "stable"
    /\ sHost.remoteDescription

\* the receiver's handleOffer ran on an offer and applied it
ReceiverAppliedOffer ==
    /\ \E i \in DOMAIN obs.rApplied : relay[i].type = "offer" /\ obs.rApplied[i] >= 1
    /\ \E p \in 1..Len(pcs) : pcs[p].remoteDescription

AnswerPublished == \E i \in 1..Len(relay) : relay[i].type = "answer"

\* C1: with both polls firing fairly and no host call failing, every offer
\* the streamer publishes is eventually applied by the receiver, answered,
\* and the streamer ends up connected at quality low
NegotiationCompletes ==
    OfferPublished ~> (/\ ReceiverAppliedOffer
                       /\ AnswerPublished
                       /\ StreamerConnected
                       /\ streamer.currentQuality = "low")

\* C2: the receiver invokes handleOffer / handleIceCandidate at most once on
\* an envelope, however many ticks pass while a handler is still awaiting
ReceiverAtMostOnce == \A i \in DOMAIN obs.rApplied : obs.rApplied[i] <= 1

\* C3: the streamer invokes its handler at most once on an envelope; here
\* for the answers, whose handler fails on nothing: handleAnswer runs at most
\* once on each answer in the relay
StreamerAtMostOnce ==
    \A i \in DOMAIN obs.sApplied :
        relay[i].type = "answer" => obs.sApplied[i] <= 1

\* C4: on every connection of the receiver, a candidate's first
\* addIceCandidate call comes after the calls of all candidates that arrived
\* before it (the relay holds the candidates in arrival order)
CandidatesInArrivalOrder ==
    \A p \in 1..Len(pcs) :
        \A b \in 1..Len(pcs[p].cands) :
            (\A c \in 1..(b - 1) : pcs[p].cands[c] # pcs[p].cands[b])
                => \A a \in 1..(b - 1) : pcs[p].cands[a] < pcs[p].cands[b]

\* C5: neither role called addIceCandidate on a connection that had no
\* remote description
RemoteDescriptionFirst == ~obs.sAddNoRemote /\ ~obs.rAddNoRemote

\* C6: neither role runs a handler on an envelope it published itself: the
\* receiver none with its operatorId, the streamer none of its own (the
\* streamer's envelopes carry no senderId)
NoSelfEcho ==
    /\ \A i \in DOMAIN obs.rApplied :
            relay[i].senderId = OperatorId => obs.rApplied[i] = 0
    /\ \A i \in DOMAIN obs.sApplied :
            relay[i].senderId = NoSender => obs.sApplied[i] = 0

\* every close and every stop happened at most once
ReleasedOnce ==
    /\ sHost.pcCloses <= 1
    /\ sHost.dcCloses <= 1
    /\ \A id \in 1..Len(streams) : streams[id].stops <= 1
    /\ rHost.dcCloses <= 1
    /\ \A p \in 1..Len(pcs) : pcs[p].closes <= 1

\* a step that is a cleanup of the streamer (of the receiver) leaves every
\* handle of the session null, and changes nothing of a session that has
\* acquired nothing yet
CleanupLeavesNull ==
    /\ obs'.sCleanups # obs.sCleanups =>
            /\ ~streamer'.peerConnection
            /\ ~streamer'.dataChannel
            /\ streamer'.localStream = 0
            /\ ~streamer'.signalingInterval
            /\ (streamer = StreamerNew =>
                    streamer' = streamer /\ sHost' = sHost /\ streams' = streams)
    /\ obs'.rCleanups # obs.rCleanups =>
            /\ receiver'.peerConnection = 0
            /\ ~receiver'.dataChannel
            /\ ~receiver'.signalingInterval

\* C7: however often cleanup is called, in either role, the data channel and
\* the peer connection are closed at most once and every capture stream is
\* stopped at most once; each cleanup leaves all handles null, and a cleanup
\* of a session that acquired nothing changes nothing
CleanupIdempotent == []ReleasedOnce /\ [][CleanupLeavesNull]_vars

\* both roles were cleaned up twice after connecting, and each handle was
\* released once
CleanedUpTwice ==
    /\ obs.sCleanups = 2 /\ obs.rCleanups = 2
    /\ sHost.pcCloses = 1 /\ sHost.dcCloses = 1
    /\ \E id \in 1..Len(streams) : streams[id].stops = 1
    /\ rHost.dcCloses = 1
    /\ \E p \in 1..Len(pcs) : pcs[p].closes = 1

\* C8: once the streamer was cleaned up it holds no peer connection, no data
\* channel and no live capture stream, whatever was in flight
ClosedStaysReleased ==
    obs.sCleanups > 0 =>
        /\ ~streamer.peerConnection
        /\ ~streamer.dataChannel
        /\ ~Live(streamer.localStream)

\* C9: after a failed start the streamer holds no live capture stream, no
\* peer connection, no data channel and no poll timer
FailedStartReleased ==
    sFlow.at = "failed" =>
        /\ ~Live(streamer.localStream)
        /\ ~streamer.peerConnection
        /\ ~streamer.dataChannel
        /\ ~streamer.signalingInterval

\* the capture with audio failed and the capture of video alone succeeded
VideoOnlyCaptured == Len(streams) = 1 /\ ~streams[1].audio

\* C10: when only the capture of video alone succeeds, initialize succeeds
\* without audio and with peer connection and data channel created; when both
\* captures fail, the start fails and no peer connection was created
AudioFallback ==
    /\ VideoOnlyCaptured =>
            /\ sFlow.at \in {"createOffer", "started"}
            /\ ~streamer.hasAudio
            /\ streamer.peerConnection
            /\ streamer.dataChannel
            /\ streamer.localStream = 1
    /\ (sFlow.at = "failed" /\ streams = <<>>) =>
            /\ ~streamer.peerConnection
            /\ sHost.signalingState = "none"

\* a video-only session went on to apply the receiver's answer
VideoOnlyConnected ==
    VideoOnlyCaptured /\ ~streamer.hasAudio /\ StreamerConnected

\* the receiver never calls createOffer or setLocalDescription(offer): none of
\* its connections ever has an outstanding local offer, so the reset branch
\* of handleOffer (lines 129-134) is taken in no run
ReceiverHasNoLocalOffer ==
    \A p \in 1..Len(pcs) : pcs[p].signalingState # "have-local-offer"

ConnectionRequested == \E i \in 1..Len(relay) : relay[i].type = "connection-request"

\* an offer was published after a connection-request
OfferInResponse ==
    \E i, j \in 1..Len(relay) :
        i < j /\ relay[i].type = "connection-request" /\ relay[j].type = "offer"

\* the receiver applied an offer and set its answer
ReceiverConnected ==
    /\ receiver.peerConnection # 0
    /\ pcs[receiver.peerConnection].signalingState = "stable"
    /\ pcs[receiver.peerConnection].remoteDescription
    /\ pcs[receiver.peerConnection].localDescription

\* the receiver's connection-request came after the streamer's own poll had
\* gone over the streamer's first offer
LateRequest ==
    \E i, j \in 1..Len(relay) :
        /\ i < j
        /\ relay[i].type = "offer" /\ relay[i].processed
        /\ relay[j].type = "connection-request"

\* C12: once the receiver has published a connection-request, the streamer
\* eventually publishes an offer in response and the receiver, having applied
\* and answered it, is connected; here for a receiver that starts after the
\* streamer's first offer was polled
RequestRestartsNegotiation ==
    (ConnectionRequested /\ LateRequest) ~> (OfferInResponse /\ ReceiverConnected)

\* C13: at most one execution of changeQuality is in progress on the
\* streamer at any time, whatever asked for it
QualityChangeSingleFlight == Cardinality(CqTasks(sTasks)) <= 1

\* C14: when the latest request came while a capture acquisition was in
\* flight, then once every acquisition has settled the streamer's quality is
\* the level that request asked for, also when that level was the current
\* one at the time
NewestRequestWins ==
    (sFlow.at = "started" /\ CqTasks(sTasks) = {} /\ obs.overlap)
        => streamer.currentQuality = obs.focus

\* C16: while streaming, the quality eventually follows every focus report:
\* high once an operator is focused, low once none is
QualityFollowsFocus ==
    /\ (obs.focus = "high") ~> (streamer.currentQuality = "high" \/ obs.focus # "high")
    /\ (obs.focus = "low") ~> (streamer.currentQuality = "low" \/ obs.focus # "low")

\* C17: a changeQuality whose replaceTrack failed (on a session that was not
\* cleaned up) leaves the stream in use live, the quality and the peer
\* connection as they were, and its promise is rejected
ReplaceFailureReported ==
    [][(obs'.replaceFailure # obs.replaceFailure /\ obs.sCleanups = 0) =>
            /\ streamer'.currentQuality = streamer.currentQuality
            /\ streamer'.localStream = streamer.localStream
            /\ streams'[streamer.localStream].stops = 0
            /\ sHost'.pcCloses = 0
            /\ obs'.replaceFailure = "rejected"]_vars

\* the same without the report: what such a failure leaves of the session
ReplaceFailureKeepsSession ==
    [][(obs'.replaceFailure # obs.replaceFailure /\ obs.sCleanups = 0) =>
            /\ streamer'.currentQuality = streamer.currentQuality
            /\ streamer'.localStream = streamer.localStream
            /\ streams'[streamer.localStream].stops = 0
            /\ sHost'.pcCloses = 0]_vars

\* the quality-request envelopes of the relay, oldest first
QualityRequests == SelectSeq(relay, LAMBDA m : m.type = "quality-request")

\* C15: every focus change on a connected receiver issues exactly one quality
\* request, for high when focus was gained and for low when it was released
OneRequestPerFocusChange ==
    /\ Len(QualityRequests) = obs.requests
    /\ obs.requests > 0 =>
            QualityRequests[Len(QualityRequests)].quality =
                (IF rHost.isFocused THEN "high" ELSE "low")

\* C18: in either role at most one envelope handler is under way at a time:
\* a handler that awaits the host has finished before the next handler of
\* the batch, or of the next tick, starts
HandlersSerialized == Cardinality(rTasks) <= 1 /\ Cardinality(sTasks) <= 1

\* the place of a release in the order timer, data channel, peer connection,
\* capture tracks
ReleaseRank(h) ==
    CASE h = "timer" -> 0
      [] h = "dataChannel" -> 1
      [] h = "peerConnection" -> 2
      [] h = "tracks" -> 3

InReleaseOrder(s) ==
    \A i, j \in 1..Len(s) : i < j => ReleaseRank(s[i]) < ReleaseRank(s[j])

\* C19: a cleanup of either role stops the poll timer first and then
\* releases the data channel, the peer connection and the capture tracks, in
\* this order
CleanupReleaseOrder == InReleaseOrder(obs.sReleases) /\ InReleaseOrder(obs.rReleases)

\* C20: the receiver's buffer of pending candidates is non-empty only while
\* the remote description is not applied
PendingOnlyBeforeRemoteDescription ==
    receiver.pendingIceCandidates # <<>> => ~receiver.remoteDescriptionSet

\* the number of addIceCandidate calls on connection p
Calls(p) == IF p = 0 THEN 0 ELSE Len(pcs[p].cands)

\* a step in which the addIceCandidate of a buffered candidate failed in
\* invocation t: the flag is as it was; when the array the loop walks holds a
\* further candidate, addIceCandidate is called on it; when it holds none
\* and the offer is still unanswered, the invocation goes on to the answer
DrainGoesOn(t) ==
    LET later == t.k < Len(t.arr)
        next == [t EXCEPT !.k = @ + 1] IN
    /\ receiver'.remoteDescriptionSet = receiver.remoteDescriptionSet
    /\ later =>
            /\ [next EXCEPT !.step = "drain"] \in rTasks'
            /\ Calls(t.pc)' = Calls(t.pc) + 1
            /\ pcs'[t.pc].cands[Calls(t.pc)'] = t.arr[t.k + 1]
    /\ (~later /\ pcs[t.pc].signalingState = "have-remote-offer") =>
            \E u \in rTasks' : u.tid = t.tid /\ u.kind = "offer" /\ u.step = "answer"

\* C21: when addIceCandidate fails for a buffered candidate, the drain goes
\* on with the candidates buffered behind it, remoteDescriptionSet stays as
\* it was, and the answer is created and published in the end
BadCandidateDoesNotBlock ==
    /\ [][\A t \in rTasks : ROfferDrainDone(t, FALSE) => DrainGoesOn(t)]_vars
    /\ (obs.badCandidate # 0) ~> AnswerPublished

\* the first of two buffered candidates failed, the second was applied on
\* the same connection after it, and the offer was answered
BadCandidateThenAnswer ==
    /\ obs.badCandidate # 0
    /\ AnswerPublished
    /\ receiver.remoteDescriptionSet
    /\ \E a, b \in 1..Calls(receiver.peerConnection) :
            /\ a < b
            /\ pcs[receiver.peerConnection].cands[a] = obs.badCandidate
            /\ pcs[receiver.peerConnection].cands[b] > obs.badCandidate

\* C22: a poll marks an envelope processed in the relay only when a handler
\* of the polling session was run on it: an envelope no session has applied
\* is unmarked and visible to the sessions polling that key
PollMarksOnlyApplied ==
    \A i \in 1..Len(relay) :
        relay[i].processed =>
            Count(obs.sApplied, i) > 0 \/ Count(obs.rApplied, i) > 0

\* C23: the receiver skips an envelope as a duplicate only when it ran a
\* handler on that very envelope before; two candidates of the streamer
\* stamped with the same millisecond are both handled
NoFalseDuplicates == ~obs.falseDuplicate

\* C24: the receiver has an offer in processedMessages only when handling
\* it succeeded: the offer is set as the remote description of the current
\* connection and its answer was published
ProcessedMeansApplied ==
    \A i \in 1..Len(relay) :
        (relay[i].type = "offer" /\ MessageId(relay[i]) \in receiver.processedMessages)
            => /\ receiver.peerConnection # 0
               /\ pcs[receiver.peerConnection].remoteDescription
               /\ AnswerPublished

\* C25: while no handleOffer is in progress, remoteDescriptionSet is true
\* exactly when the receiver's current connection has a remote description
FlagTracksConnection ==
    OfferTasks(rTasks) = {} =>
        (receiver.remoteDescriptionSet <=>
            (receiver.peerConnection # 0 /\ pcs[receiver.peerConnection].remoteDescription))

\* C26: once no changeQuality is in progress, every capture stream a
\* changeQuality acquired (the first stream is the one initialize acquired)
\* is the session's localStream or has its tracks stopped
NoLeakedCapture ==
    CqTasks(sTasks) = {} =>
        \A id \in 2..Len(streams) : Live(id) => streamer.localStream = id

\* C27: while the streamer holds a capture stream and no changeQuality is in
\* progress, hasAudio is true exactly when that stream has an audio track,
\* and onAudioStatusChange was last called with this value
HasAudioMatchesCapture ==
    (streamer.localStream # 0 /\ CqTasks(sTasks) = {}) =>
        /\ streamer.hasAudio <=> streams[streamer.localStream].audio
        /\ obs.audioStatus = AudioStatus(streamer.hasAudio)

\* the same of the observer alone: it was told what hasAudio says
ObserverKnowsHasAudio ==
    streamer.localStream # 0 => obs.audioStatus = AudioStatus(streamer.hasAudio)

\* a request for level q that the receiver sent over the open data channel
\* is on its way to the streamer
ChannelRequest(q) ==
    \E k \in 1..Len(rHost.dcSent) :
        rHost.dcSent[k].type = "quality-request" /\ rHost.dcSent[k].quality = q

\* C28: a quality request the receiver sent over the open data channel makes
\* the streamer change to the requested level, and the change is reported
\* back: the receiver's currentQuality eventually is the streamer's
ChannelRequestHonoured ==
    \A q \in QualityLevel :
        ChannelRequest(q) ~> (streamer.currentQuality = q /\ receiver.currentQuality = q)

\* of the same, the streamer's half: it changes to the requested level
StreamerFollowsRequest ==
    \A q \in QualityLevel : ChannelRequest(q) ~> (streamer.currentQuality = q)

\* the receivers of the component whose poll timer runs
Alive == {k \in 1..Len(rHost.view.sessions) : rHost.view.sessions[k].timer}

\* nothing of the component is left to run
ViewAtRest ==
    /\ rHost.view.pending = {}
    /\ \/ rHost.view.phase = "unmounted"
       \/ /\ rHost.view.phase = "mounted"
          /\ ~rHost.view.useWebRTC
          /\ rHost.view.webrtcReceiver = rHost.view.seen

\* C29: at most one receiver of a component is alive at a time, and when
\* the component has unmounted, or useWebRTC is off, and all its async
\* functions have returned, none is: each was cleaned up and its timer
\* stopped
ReceiverLifecycle ==
    /\ Cardinality(Alive) <= 1
    /\ ViewAtRest => Alive = {}

\* C30: every connection of the receiver is in signalling state stable or
\* have-remote-offer, never have-local-offer, and resetPeerConnection is
\* never invoked: the connection initialize created is the only one
ReceiverSignalingStates ==
    /\ \A p \in 1..Len(pcs) :
            pcs[p].signalingState \in {"stable", "have-remote-offer"}
    /\ Len(pcs) <= 1
    /\ \A p \in 1..Len(pcs) : pcs[p].closes = 0

\* handleOffer is under way a second time on a connection that already has
\* the offer: the state is not stable, and it is not have-local-offer
OfferOnUnstableConnection ==
    /\ Len(pcs) = 1
    /\ pcs[1].signalingState = "have-remote-offer"
    /\ \E t, u \in OfferTasks(rTasks) :
            t.step = "answer" /\ u.step = "setRemoteDescription"

====
